---- MODULE Spec2Model ----
(***************************************************************************)
(* Paint resolution of resvg's Skia backend (src/paint_server.rs): fill    *)
(* and stroke turn a usvg paint (solid colour or a link to a gradient or   *)
(* pattern in the tree's definitions) into a skia::Paint.  prepare_pattern *)
(* re-enters the scene renderer (render_group), which calls fill / stroke  *)
(* again for the shapes of the pattern's content, so the model keeps the   *)
(* call stack explicitly.                                                  *)
(*                                                                         *)
(* Numbers.  f64 quantities are integers (dyadic values under a fixed      *)
(* scale); `as f32` is rounding to a 24-bit significand (AsF32).  Offsets  *)
(* are counted in units of 2^-25 (1.0 = 2^25), opacities in sixteenths     *)
(* (1.0 = 16).  Inf, NegInf and NaN are reserved values outside the range  *)
(* of the finite numbers that occur.                                       *)
(***************************************************************************)
EXTENDS Integers, Sequences, FiniteSets, TLC

VARIABLES
    stack,      \* call stack, innermost frame last
    status,     \* "ok" | "panicked" | "overflow"
    req,        \* the arguments of the top-level fill / stroke calls
    fillRes,    \* Option<Paint>: what fill returned for req
    strokeRes,  \* Option<Paint>: what stroke returned for req
    live,       \* offscreen surfaces created and not yet dropped
    renders,    \* render_group calls made since the top-level call began
    ev,         \* the last gradient / pattern step that ran (history)
    backend     \* what the backend's constructors answered: during the call
                \* in progress (cur), and during the fill and the stroke that
                \* returned fillRes and strokeRes (history)

vars == <<stack, status, req, fillRes, strokeRes, live, renders, ev, backend>>

---------------------------------------------------------------------------
\* Bounds of the model.

MaxDepth == 7

---------------------------------------------------------------------------
\* Option<T> as a sequence of length 0 or 1.

None == <<>>
Some(v) == <<v>>
IsSome(o) == Len(o) = 1
Unwrap(o) == o[1]

---------------------------------------------------------------------------
\* Numbers.

Pow2(n) == 2 ^ n
Big == Pow2(24) + 1          \* smallest positive integer f32 cannot hold
Inf == Pow2(30)
NegInf == 0 - Pow2(30)
NaN == Pow2(30) + 1
IsFinite(x) == x \notin {Inf, NegInf, NaN}

Abs(x) == IF x < 0 THEN 0 - x ELSE x

RECURSIVE Ulp(_)
Ulp(a) == IF a < Pow2(24) THEN 1 ELSE 2 * Ulp(a \div 2)

\* `x as f32`: round to nearest, ties to even, 24-bit significand.
AsF32(x) ==
    IF ~IsFinite(x) THEN x
    ELSE LET a   == Abs(x)
             q   == Ulp(a)
             lo  == (a \div q) * q
             rem == a - lo
             up  == IF 2 * rem > q THEN TRUE
                    ELSE IF 2 * rem < q THEN FALSE
                    ELSE ((lo \div q) % 2) = 1
             m   == IF up THEN lo + q ELSE lo
         IN  IF x < 0 THEN 0 - m ELSE m

\* f64 multiplication on the values the model uses (exact on the finite ones).
FMul(a, b) ==
    IF a = NaN \/ b = NaN THEN NaN
    ELSE IF ~IsFinite(a) \/ ~IsFinite(b)
         THEN (IF a = 0 \/ b = 0 THEN NaN
               ELSE IF (a < 0) # (b < 0) THEN NegInf ELSE Inf)
    ELSE a * b

\* usvg::Opacity, in sixteenths.
OpacityOne == Pow2(4)
OpacityMul(a, b) == (a * b) \div OpacityOne
to_u8(o) == (2 * 255 * o + OpacityOne) \div (2 * OpacityOne)
is_default(o) == o = OpacityOne

---------------------------------------------------------------------------
\* usvg::Transform, kept symbolically as the sequence of appended operations.

Transform_default == <<>>
Transform_from_bbox(bbox) == <<[op |-> "from_bbox", v |-> <<bbox.x, bbox.y, bbox.w, bbox.h>>]>>
append(ts, other) == ts \o other
translate(ts, x, y) == Append(ts, [op |-> "translate", v |-> <<x, y>>])
\* scale by the ratios v[1]/v[2] and v[3]/v[4]
scale(ts, xn, xd, yn, yd) == Append(ts, [op |-> "scale", v |-> <<xn, xd, yn, yd>>])
to_native(ts) == [native |-> ts]
get_scale(ts) == <<ts.sx, ts.sy>>

\* usvg::Rect
bbox_transform(r, bbox) ==
    [x |-> r.x * bbox.w + bbox.x, y |-> r.y * bbox.h + bbox.y,
     w |-> r.w * bbox.w,          h |-> r.h * bbox.h]

\* usvg::Size::new: None unless both lengths are finite and positive.
Size_new(w, h) ==
    IF IsFinite(w) /\ IsFinite(h) /\ w > 0 /\ h > 0
    THEN Some([w |-> w, h |-> h]) ELSE None

Max(a, b) == IF a > b THEN a ELSE b
to_screen_size(size) == [w |-> Max(1, size.w), h |-> Max(1, size.h)]

---------------------------------------------------------------------------
\* The rendering backend (skia).  A paint records what has been set on it.

Paint_new ==
    [style |-> None, color |-> None, shader |-> None, alpha |-> None,
     stroke_cap |-> None, stroke_join |-> None, stroke_miter |-> None,
     stroke_width |-> None, path_effect |-> None]

set_style(paint, s)       == [paint EXCEPT !.style = Some(s)]
set_color(paint, r, g, b, a) ==
    [paint EXCEPT !.color = Some([a |-> a, r |-> r, g |-> g, b |-> b])]
set_shader(paint, sh)     == [paint EXCEPT !.shader = Some(sh)]
set_alpha(paint, a)       == [paint EXCEPT !.alpha = Some(a)]
set_stroke_cap(paint, c)  == [paint EXCEPT !.stroke_cap = Some(c)]
set_stroke_join(paint, j) == [paint EXCEPT !.stroke_join = Some(j)]
set_stroke_miter(paint, m) == [paint EXCEPT !.stroke_miter = Some(m)]
set_stroke_width(paint, w) == [paint EXCEPT !.stroke_width = Some(w)]
set_path_effect(paint, e) == [paint EXCEPT !.path_effect = Some(e)]

Color_new(a, r, g, b) == [a |-> a, r |-> r, g |-> g, b |-> b]

\* The shader constructors return Option<Shader>; whether the backend yields
\* a shader is its own decision, drawn by the caller of these as `ok`.
new_linear_gradient(gradient, ok) ==
    IF ok THEN Some([kind |-> "linear", desc |-> gradient]) ELSE None
new_two_point_conical_gradient(gradient, ok) ==
    IF ok THEN Some([kind |-> "two_point_conical", desc |-> gradient]) ELSE None
new_from_surface_image(surface, ts, ok) ==
    IF ok THEN Some([kind |-> "image", desc |-> [surface |-> surface, ts |-> ts]])
    ELSE None
create_subsurface(img_size, ok) ==
    IF ok THEN Some([size |-> img_size, cleared |-> FALSE, ops |-> <<>>]) ELSE None
surface_clear(surface) == [surface EXCEPT !.cleared = TRUE]
surface_scale(surface, sx, sy) ==
    [surface EXCEPT !.ops = Append(@, [op |-> "scale", v |-> <<sx, sy>>])]
surface_concat(surface, ts) ==
    [surface EXCEPT !.ops = Append(@, [op |-> "concat", v |-> <<ts>>])]

RECURSIVE SumSeq(_)
SumSeq(s) == IF s = <<>> THEN 0 ELSE s[1] + SumSeq(Tail(s))

\* The dash constructor yields nothing for a dash array of total length zero.
new_dash_path(list, phase) ==
    IF SumSeq(list) = 0 THEN None
    ELSE Some([intervals |-> list, phase |-> phase])

---------------------------------------------------------------------------
\* The document (usvg::Tree): the definitions and the paints that refer to
\* them.  A pattern's content is the sequence of fill / stroke calls that
\* rendering its children makes.

Half == Pow2(24)             \* offset 0.5
One == Pow2(25)              \* offset 1.0

Color(r, g, b) == [tag |-> "Color", c |-> [red |-> r, green |-> g, blue |-> b], id |-> ""]
Link(id) == [tag |-> "Link", c |-> [red |-> 0, green |-> 0, blue |-> 0], id |-> id]

Stop(offset, r, g, b, opacity) ==
    [offset |-> offset, color |-> [red |-> r, green |-> g, blue |-> b],
     opacity |-> opacity]

Rect(x, y, w, h) == [x |-> x, y |-> y, w |-> w, h |-> h]

Fill(paint, opacity) == [paint |-> paint, opacity |-> opacity]

Stroke(paint, opacity, linecap, linejoin, miterlimit, width, dasharray, dashoffset) ==
    [paint |-> paint, opacity |-> opacity, linecap |-> linecap,
     linejoin |-> linejoin, miterlimit |-> miterlimit, width |-> width,
     dasharray |-> dasharray, dashoffset |-> dashoffset]

Shape(fn, spec, bbox) == [fn |-> fn, spec |-> spec, bbox |-> bbox]

LinearGradient(x1, y1, x2, y2, stops, spread, units) ==
    [kind |-> "LinearGradient", x1 |-> x1, y1 |-> y1, x2 |-> x2, y2 |-> y2,
     stops |-> stops, spread_method |-> spread, units |-> units,
     transform |-> <<[op |-> "matrix", v |-> <<x1, y1>>]>>]

RadialGradient(cx, cy, r, fx, fy, stops, spread, units) ==
    [kind |-> "RadialGradient", cx |-> cx, cy |-> cy, r |-> r, fx |-> fx, fy |-> fy,
     stops |-> stops, spread_method |-> spread, units |-> units,
     transform |-> <<[op |-> "matrix", v |-> <<cx, cy>>]>>]

Pattern(rect, units, content_units, view_box, children) ==
    [kind |-> "Pattern", rect |-> rect, units |-> units,
     content_units |-> content_units, view_box |-> view_box,
     transform |-> <<[op |-> "matrix", v |-> <<rect.x, rect.y>>]>>,
     children |-> children]

Stops2 == <<Stop(0, 255, 0, 0, 16), Stop(Half, 0, 0, 255, 8)>>
\* not ordered by offset, one offset that f32 cannot hold, two equal stops
Stops4 == <<Stop(One, 1, 2, 3, 8), Stop(0, 4, 5, 6, 16),
            Stop(Half + 1, 7, 8, 9, 4), Stop(Half + 1, 7, 8, 9, 4)>>

UnitBox == Rect(0, 0, 1, 1)
Box == Rect(1, 2, 3, 5)

DefIds == {"lg1", "lg2", "rg1", "rg2", "rg0",
           "pat1", "patO", "patV", "patZ", "patC", "patA", "patB", "clip"}

Defs ==
    [id \in DefIds |->
       CASE id = "lg1" -> LinearGradient(0, 0, 10, 0, Stops2, "Pad", "UserSpaceOnUse")
         [] id = "lg2" -> LinearGradient(0 - Big, 1, Big, 3, Stops4, "Reflect", "ObjectBoundingBox")
         [] id = "rg1" -> RadialGradient(5, 5, 10, 5, 5, Stops2, "Pad", "ObjectBoundingBox")
         [] id = "rg2" -> RadialGradient(Big, 6, Big, 2, 0 - Big, Stops4, "Repeat", "UserSpaceOnUse")
         [] id = "rg0" -> RadialGradient(5, 5, 0, 4, 4, Stops2, "Pad", "UserSpaceOnUse")
         [] id = "pat1" -> Pattern(Rect(1, 1, 4, 2), "UserSpaceOnUse", "UserSpaceOnUse", None,
                                   <<Shape("fill", Some(Fill(Color(9, 9, 9), 16)), Box)>>)
         [] id = "patO" -> Pattern(UnitBox, "ObjectBoundingBox", "ObjectBoundingBox", None,
                                   <<Shape("fill", Some(Fill(Link("lg2"), 8)), UnitBox),
                                     Shape("stroke", Some(Stroke(Link("rg1"), 16, "Round", "Bevel",
                                                                 4, 1, Some(<<4, 2>>), 1)), UnitBox)>>)
         [] id = "patV" -> Pattern(Rect(0, 0, 2, 2), "UserSpaceOnUse", "ObjectBoundingBox",
                                   Some([rect |-> Rect(0, 0, 8, 8), aspect |-> "xMidYMid"]),
                                   <<Shape("fill", Some(Fill(Link("pat1"), 8)), Box),
                                     Shape("fill", Some(Fill(Link("nope"), 16)), Box),
                                     Shape("stroke", None, Box)>>)
         [] id = "patZ" -> Pattern(Rect(0, 0, 0, 2), "UserSpaceOnUse", "UserSpaceOnUse", None,
                                   <<Shape("fill", Some(Fill(Color(1, 1, 1), 16)), Box)>>)
         [] id = "patC" -> Pattern(Rect(0, 0, 2, 2), "UserSpaceOnUse", "UserSpaceOnUse", None,
                                   <<Shape("fill", Some(Fill(Link("patC"), 16)), Box)>>)
         [] id = "patA" -> Pattern(Rect(0, 0, 2, 2), "UserSpaceOnUse", "UserSpaceOnUse", None,
                                   <<Shape("stroke", Some(Stroke(Link("patB"), 16, "Butt", "Miter",
                                                                 4, 1, None, 0)), Box)>>)
         [] id = "patB" -> Pattern(Rect(0, 0, 2, 2), "UserSpaceOnUse", "UserSpaceOnUse", None,
                                   <<Shape("fill", Some(Fill(Link("patA"), 16)), Box)>>)
         [] OTHER -> [kind |-> "ClipPath"]]

defs_by_id(id) == IF id \in DOMAIN Defs THEN Some(Defs[id]) ELSE None

---------------------------------------------------------------------------
\* Gradients (prepare_base_gradient, prepare_linear, prepare_radial).

TileMode(spread_method) ==
    CASE spread_method = "Pad" -> "Clamp"
      [] spread_method = "Reflect" -> "Mirror"
      [] spread_method = "Repeat" -> "Repeat"

\* push_stops with the paint's opacity left out of the stop's alpha.
RECURSIVE push_stops_stop_opacity(_, _, _, _)
push_stops_stop_opacity(stops, opacity, colors, positions) ==
    IF stops = <<>> THEN [colors |-> colors, positions |-> positions]
    ELSE LET stop  == Head(stops)
             a     == stop.opacity
             color == Color_new(to_u8(a), stop.color.red, stop.color.green, stop.color.blue)
         IN  push_stops_stop_opacity(Tail(stops), opacity,
                        Append(colors, color), Append(positions, AsF32(stop.offset)))

\* The loop over g.stops: one colour and one position pushed per stop.
RECURSIVE push_stops(_, _, _, _)
push_stops(stops, opacity, colors, positions) ==
    IF stops = <<>> THEN [colors |-> colors, positions |-> positions]
    ELSE LET stop  == Head(stops)
             a     == OpacityMul(stop.opacity, opacity)
             color == Color_new(to_u8(a), stop.color.red, stop.color.green, stop.color.blue)
         IN  push_stops(Tail(stops), opacity,
                        Append(colors, color), Append(positions, AsF32(stop.offset)))

prepare_base_gradient(g, opacity, bbox) ==
    LET tile_mode == TileMode(g.spread_method)
        transform ==
            IF g.units = "ObjectBoundingBox"
            THEN to_native(append(Transform_from_bbox(bbox), g.transform))
            ELSE to_native(g.transform)
        lists == push_stops(g.stops, opacity, <<>>, <<>>)
    IN  [colors |-> lists.colors, positions |-> lists.positions,
         tile_mode |-> tile_mode, transform |-> transform]

\* Outcome of a prepare step: the paint afterwards, or a panic (unwrap of None).
Returned(paint, gradient) == [panic |-> FALSE, paint |-> paint, gradient |-> gradient]
Panicked(paint, gradient) == [panic |-> TRUE, paint |-> paint, gradient |-> gradient]

prepare_linear(g, opacity, bbox, paint, ok) ==
    LET gradient ==
            [start_point |-> <<AsF32(g.x1), AsF32(g.y1)>>,
             end_point |-> <<AsF32(g.x2), AsF32(g.y2)>>,
             base |-> prepare_base_gradient(g, opacity, bbox)]
        shader == new_linear_gradient(gradient, ok)
    IN  IF IsSome(shader) THEN Returned(set_shader(paint, Unwrap(shader)), Some(gradient))
        ELSE Panicked(paint, Some(gradient))

\* prepare_radial with the two circles' centres exchanged.
prepare_radial_swapped(g, opacity, bbox, paint, ok) ==
    LET gradient ==
            [start |-> <<AsF32(g.cx), AsF32(g.cy)>>,
             start_radius |-> 0,
             end |-> <<AsF32(g.fx), AsF32(g.fy)>>,
             end_radius |-> AsF32(g.r),
             base |-> prepare_base_gradient(g, opacity, bbox)]
        shader == new_two_point_conical_gradient(gradient, ok)
    IN  IF IsSome(shader) THEN Returned(set_shader(paint, Unwrap(shader)), Some(gradient))
        ELSE Panicked(paint, Some(gradient))

prepare_radial(g, opacity, bbox, paint, ok) ==
    LET gradient ==
            [start |-> <<AsF32(g.fx), AsF32(g.fy)>>,
             start_radius |-> 0,
             end |-> <<AsF32(g.cx), AsF32(g.cy)>>,
             end_radius |-> AsF32(g.r),
             base |-> prepare_base_gradient(g, opacity, bbox)]
        shader == new_two_point_conical_gradient(gradient, ok)
    IN  IF IsSome(shader) THEN Returned(set_shader(paint, Unwrap(shader)), Some(gradient))
        ELSE Panicked(paint, Some(gradient))

---------------------------------------------------------------------------
\* prepare_pattern, split at its call of render_group.

NoPattern == [id |-> "", r |-> UnitBox, sx |-> 0, sy |-> 0, opacity |-> 0, surface |-> None]

\* prepare_pattern_begin without the early return on an invalid raster size.
prepare_pattern_begin_unchecked(id, pattern, global_ts, bbox, opacity, surfOk) ==
    LET r  == IF pattern.units = "ObjectBoundingBox"
              THEN bbox_transform(pattern.rect, bbox) ELSE pattern.rect
        sc == get_scale(global_ts)
        img_size == [w |-> 1, h |-> 1]
        created  == create_subsurface(img_size, surfOk)
    IN  IF ~IsSome(created) THEN [tag |-> "abort", size_ok |-> TRUE, pp |-> NoPattern]
        ELSE [tag |-> "render", size_ok |-> TRUE,
              pp |-> [id |-> id, r |-> r, sx |-> sc[1], sy |-> sc[2], opacity |-> opacity,
                      surface |-> Some(surface_scale(surface_clear(Unwrap(created)),
                                                     AsF32(sc[1]), AsF32(sc[2])))]]

\* Lines 182-204: the tile rect, the raster size, the offscreen surface and
\* its transform.  tag "abort": one of the two try_opt! returned early.
prepare_pattern_begin(id, pattern, global_ts, bbox, opacity, surfOk) ==
    LET r  == IF pattern.units = "ObjectBoundingBox"
              THEN bbox_transform(pattern.rect, bbox) ELSE pattern.rect
        sc == get_scale(global_ts)
        sx == sc[1]
        sy == sc[2]
        size == Size_new(FMul(r.w, sx), FMul(r.h, sy))
    IN  IF ~IsSome(size) THEN [tag |-> "abort", size_ok |-> FALSE, pp |-> NoPattern]
        ELSE
        LET img_size == to_screen_size(Unwrap(size))
            created  == create_subsurface(img_size, surfOk)
        IN  IF ~IsSome(created) THEN [tag |-> "abort", size_ok |-> TRUE, pp |-> NoPattern]
            ELSE
            LET s1 == surface_scale(surface_clear(Unwrap(created)), AsF32(sx), AsF32(sy))
                s2 == IF IsSome(pattern.view_box)
                      THEN surface_concat(s1, to_native(
                               <<[op |-> "view_box", v |-> <<Unwrap(pattern.view_box), r.w, r.h>>]>>))
                      ELSE IF pattern.content_units = "ObjectBoundingBox"
                      THEN surface_scale(s1, AsF32(bbox.w), AsF32(bbox.h))
                      ELSE s1
            IN  [tag |-> "render", size_ok |-> TRUE,
                 pp |-> [id |-> id, r |-> r, sx |-> sx, sy |-> sy,
                         opacity |-> opacity, surface |-> Some(s2)]]

\* Lines 209-218: the image shader and the alpha, after render_group returned.
prepare_pattern_end(pattern, pp, paint, ok) ==
    LET ts == scale(translate(append(Transform_default, pattern.transform), pp.r.x, pp.r.y),
                    1, pp.sx, 1, pp.sy)
        shader == new_from_surface_image(Unwrap(pp.surface), to_native(ts), ok)
    IN  IF ~IsSome(shader) THEN Panicked(paint, None)
        ELSE LET p1 == set_shader(paint, Unwrap(shader))
             IN  Returned(IF ~is_default(pp.opacity) THEN set_alpha(p1, to_u8(pp.opacity)) ELSE p1,
                          None)

---------------------------------------------------------------------------
\* fill and stroke up to the point where they return, panic or have entered
\* a pattern (tag "return" | "panic" | "pattern").

NoEvent == [op |-> "none"]

Outcome(tag, paint, pp, e) == [tag |-> tag, paint |-> paint, pp |-> pp, ev |-> e]

GradientEvent(op, id, opacity, bbox, before, o) ==
    [op |-> op, id |-> id, opacity |-> opacity, bbox |-> bbox,
     gradient |-> Unwrap(o.gradient), before |-> before, after |-> o.paint,
     panic |-> o.panic]

PatternEvent(op, fn, id, bbox, ts, size_ok, before, after, n) ==
    [op |-> op, fn |-> fn, id |-> id, bbox |-> bbox, ts |-> ts, size_ok |-> size_ok,
     before |-> before, after |-> after, renders |-> n]

FromPrepare(op, id, opacity, bbox, before, o) ==
    Outcome(IF o.panic THEN "panic" ELSE "return", o.paint, NoPattern,
            GradientEvent(op, id, opacity, bbox, before, o))

FromPattern(fn, id, bbox, ts, before, b, n) ==
    IF b.tag = "abort"
    THEN Outcome("return", before, NoPattern,
                 PatternEvent("pattern_abort", fn, id, bbox, ts, b.size_ok, before, before, n))
    ELSE Outcome("pattern", before, b.pp,
                 PatternEvent("pattern_render", fn, id, bbox, ts, b.size_ok, before, before, n))

\* Lines 13-39.
fill_paint(fill, bbox, global_ts, n, shaderOk, surfOk) ==
    LET paint == set_style(Paint_new, "Fill")
    IN  IF ~IsSome(fill) THEN Outcome("return", paint, NoPattern, NoEvent)
        ELSE
        LET f == Unwrap(fill)
            opacity == f.opacity
        IN  IF f.paint.tag = "Color"
            THEN Outcome("return",
                         set_color(paint, f.paint.c.red, f.paint.c.green, f.paint.c.blue,
                                   to_u8(opacity)),
                         NoPattern, NoEvent)
            ELSE
            LET id == f.paint.id
                found == defs_by_id(id)
            IN  IF ~IsSome(found) THEN Outcome("return", paint, NoPattern, NoEvent)
                ELSE
                LET node == Unwrap(found)
                IN  CASE node.kind = "LinearGradient" ->
                           FromPrepare("prepare_linear", id, opacity, bbox, paint,
                                       prepare_linear(node, opacity, bbox, paint, shaderOk))
                      [] node.kind = "RadialGradient" ->
                           FromPrepare("prepare_radial", id, opacity, bbox, paint,
                                       prepare_radial(node, opacity, bbox, paint, shaderOk))
                      [] node.kind = "Pattern" ->
                           FromPattern("fill", id, bbox, global_ts, paint,
                                       prepare_pattern_begin(id, node, global_ts, bbox, opacity, surfOk),
                                       n)
                      [] OTHER -> Outcome("return", paint, NoPattern, NoEvent)

\* stroke_paint with a solid colour made opaque whatever the stroke's opacity.
stroke_paint_opaque(stroke, bbox, global_ts, n, shaderOk, surfOk) ==
    IF IsSome(stroke) /\ Unwrap(stroke).paint.tag = "Color"
    THEN LET c == Unwrap(stroke).paint.c
         IN  Outcome("return",
                     set_color(set_style(Paint_new, "Stroke"), c.red, c.green, c.blue, 255),
                     NoPattern, NoEvent)
    ELSE Outcome("return", set_style(Paint_new, "Stroke"), NoPattern, NoEvent)

\* Lines 50-75.
stroke_paint(stroke, bbox, global_ts, n, shaderOk, surfOk) ==
    LET paint == set_style(Paint_new, "Stroke")
    IN  IF ~IsSome(stroke) THEN Outcome("return", paint, NoPattern, NoEvent)
        ELSE
        LET s == Unwrap(stroke)
            opacity == s.opacity
        IN  IF s.paint.tag = "Color"
            THEN Outcome("return",
                         set_color(paint, s.paint.c.red, s.paint.c.green, s.paint.c.blue,
                                   to_u8(opacity)),
                         NoPattern, NoEvent)
            ELSE
            LET id == s.paint.id
                found == defs_by_id(id)
            IN  IF ~IsSome(found) THEN Outcome("return", paint, NoPattern, NoEvent)
                ELSE
                LET node == Unwrap(found)
                IN  CASE node.kind = "LinearGradient" ->
                           FromPrepare("prepare_linear", id, opacity, bbox, paint,
                                       prepare_linear(node, opacity, bbox, paint, shaderOk))
                      [] node.kind = "RadialGradient" ->
                           FromPrepare("prepare_radial", id, opacity, bbox, paint,
                                       prepare_radial(node, opacity, bbox, paint, shaderOk))
                      [] node.kind = "Pattern" ->
                           FromPattern("stroke", id, bbox, global_ts, paint,
                                       prepare_pattern_begin(id, node, global_ts, bbox, opacity, surfOk),
                                       n)
                      [] OTHER -> Outcome("return", paint, NoPattern, NoEvent)

StrokeCap(linecap) ==
    CASE linecap = "Butt" -> "Butt"
      [] linecap = "Round" -> "Round"
      [] linecap = "Square" -> "Square"

StrokeJoin(linejoin) ==
    CASE linejoin = "Miter" -> "Miter"
      [] linejoin = "Round" -> "Round"
      [] linejoin = "Bevel" -> "Bevel"

MapAsF32(list) == [i \in DOMAIN list |-> AsF32(list[i])]

\* stroke_style applied only to a paint that got a colour or a shader.
stroke_style_if_resolved(stroke, paint) ==
    IF ~IsSome(stroke) \/ (paint.color = None /\ paint.shader = None)
    THEN Returned(paint, None)
    ELSE
    LET s  == Unwrap(stroke)
        p1 == set_stroke_cap(paint, s.linecap)
        p2 == set_stroke_join(p1, s.linejoin)
        p3 == set_stroke_miter(p2, AsF32(s.miterlimit))
        p4 == set_stroke_width(p3, AsF32(s.width))
    IN  IF ~IsSome(s.dasharray) THEN Returned(p4, None)
        ELSE LET path_effect == new_dash_path(MapAsF32(Unwrap(s.dasharray)), s.dashoffset)
             IN  IF ~IsSome(path_effect) THEN Panicked(p4, None)
                 ELSE Returned(set_path_effect(p4, Unwrap(path_effect)), None)

\* Lines 77-98, run when a stroke spec is present, whatever the paint became.
stroke_style(stroke, paint) ==
    IF ~IsSome(stroke) THEN Returned(paint, None)
    ELSE
    LET s  == Unwrap(stroke)
        p1 == set_stroke_cap(paint, StrokeCap(s.linecap))
        p2 == set_stroke_join(p1, StrokeJoin(s.linejoin))
        p3 == set_stroke_miter(p2, AsF32(s.miterlimit))
        p4 == set_stroke_width(p3, AsF32(s.width))
    IN  IF ~IsSome(s.dasharray) THEN Returned(p4, None)
        ELSE LET list == MapAsF32(Unwrap(s.dasharray))
                 path_effect == new_dash_path(list, s.dashoffset)
             IN  IF ~IsSome(path_effect) THEN Panicked(p4, None)
                 ELSE Returned(set_path_effect(p4, Unwrap(path_effect)), None)

---------------------------------------------------------------------------
\* The inputs of the top-level calls.

Paints == {Color(10, 20, 30)} \cup {Link(id) : id \in DefIds \cup {"nope"}}
Opacities == {8, 16}
CapsAndJoins == {<<"Butt", "Miter">>, <<"Round", "Bevel">>, <<"Square", "Round">>}
\* miterlimit, width, dasharray, dashoffset
Geometries == {<<4, 1, None, 0>>, <<Big, Big + 2, Some(<<4, 2>>), 1>>,
               <<10, 0, Some(<<0, 0>>), 1>>}
Transforms == {[sx |-> 2, sy |-> 3], [sx |-> 0, sy |-> 1], [sx |-> 1, sy |-> Inf]}

Request(present, paint, opacity, cj, geo, bbox, ts) ==
    [present |-> present, paint |-> paint, opacity |-> opacity,
     linecap |-> cj[1], linejoin |-> cj[2],
     miterlimit |-> geo[1], width |-> geo[2], dasharray |-> geo[3], dashoffset |-> geo[4],
     bbox |-> bbox, ts |-> ts]

\* A shape whose fill and stroke use the same paint and opacity, or a shape
\* with neither a fill nor a stroke.
Requests ==
    {Request(TRUE, p, o, cj, geo, Box, ts) :
        p \in Paints, o \in Opacities, cj \in CapsAndJoins, geo \in Geometries,
        ts \in Transforms}
    \cup {Request(FALSE, Color(10, 20, 30), 16, <<"Butt", "Miter">>, <<4, 1, None, 0>>, Box, ts) :
        ts \in Transforms}

FillOf(r) == IF r.present THEN Some(Fill(r.paint, r.opacity)) ELSE None
StrokeOf(r) ==
    IF r.present
    THEN Some(Stroke(r.paint, r.opacity, r.linecap, r.linejoin, r.miterlimit, r.width,
                     r.dasharray, r.dashoffset))
    ELSE None

---------------------------------------------------------------------------
\* The call stack.

Frame(fn, spec, bbox, ts) ==
    [fn |-> fn, pc |-> "entry", spec |-> spec, bbox |-> bbox, ts |-> ts,
     paint |-> Paint_new, pp |-> NoPattern, node |-> "", idx |-> 0]

GroupFrame(node, ts) ==
    [fn |-> "render_group", pc |-> "children", spec |-> None, bbox |-> UnitBox, ts |-> ts,
     paint |-> Paint_new, pp |-> NoPattern, node |-> node, idx |-> 1]

Top == stack[Len(stack)]
Front == SubSeq(stack, 1, Len(stack) - 1)
Running == status = "ok" /\ stack # <<>>
Idle == status = "ok" /\ stack = <<>>

\* The scale of the surface's current transform, which the shapes drawn on
\* it are given as their global transform.
RECURSIVE surface_get_scale(_)
surface_get_scale(ops) ==
    IF ops = <<>> THEN [sx |-> 1, sy |-> 1]
    ELSE LET rest == surface_get_scale(Tail(ops))
             o == Head(ops)
         IN  IF o.op = "scale"
             THEN [sx |-> FMul(o.v[1], rest.sx), sy |-> FMul(o.v[2], rest.sy)]
             ELSE rest

NoAnswers == [cur |-> <<>>, fill |-> <<>>, stroke |-> <<>>]

\* The constructors a step consulted, by the answers they gave.
Asked(o, shaderOk, surfOk) ==
    IF o.ev.op \in {"prepare_linear", "prepare_radial"} THEN <<shaderOk>>
    ELSE IF o.ev.op \in {"pattern_abort", "pattern_render"} /\ o.ev.size_ok THEN <<surfOk>>
    ELSE <<>>

Init ==
    /\ stack = <<>>
    /\ status = "ok"
    /\ req \in Requests
    /\ fillRes = None
    /\ strokeRes = None
    /\ live = 0
    /\ renders = 0
    /\ ev = NoEvent
    /\ backend = NoAnswers

\* The caller (the scene renderer drawing a shape) calls fill.
CallFill ==
    /\ Idle
    /\ fillRes = None
    /\ stack' = <<Frame("fill", FillOf(req), req.bbox, req.ts)>>
    /\ renders' = 0
    /\ ev' = NoEvent
    /\ backend' = [backend EXCEPT !.cur = <<>>]
    /\ UNCHANGED <<status, req, fillRes, strokeRes, live>>

\* The caller calls stroke.
CallStroke ==
    /\ Idle
    /\ strokeRes = None
    /\ stack' = <<Frame("stroke", StrokeOf(req), req.bbox, req.ts)>>
    /\ renders' = 0
    /\ ev' = NoEvent
    /\ backend' = [backend EXCEPT !.cur = <<>>]
    /\ UNCHANGED <<status, req, fillRes, strokeRes, live>>

\* The caller goes on to the next shape.
NextShape ==
    /\ Idle
    /\ IsSome(fillRes) /\ IsSome(strokeRes)
    /\ req' \in Requests
    /\ fillRes' = None
    /\ strokeRes' = None
    /\ renders' = 0
    /\ ev' = NoEvent
    /\ backend' = NoAnswers
    /\ UNCHANGED <<stack, status, live>>

\* unwrap() of None.
Panic(e) ==
    /\ status' = "panicked"
    /\ ev' = e
    /\ UNCHANGED <<stack, req, fillRes, strokeRes, live, renders, backend>>

\* The recursion has outgrown the stack.
Overflow ==
    /\ status' = "overflow"
    /\ UNCHANGED <<stack, req, fillRes, strokeRes, live, renders, ev, backend>>

\* The end of prepare_pattern's scope drops its surface.
surface_leak(n) == n
surface_drop(n) == n - 1

\* `paint` is returned to the caller of the innermost fill / stroke;
\* `surfaces` is the count of live surfaces at that point.
Return(fn, paint, e, surfaces, asked) ==
    /\ stack' = Front
    /\ fillRes' = IF Len(stack) = 1 /\ fn = "fill" THEN Some(paint) ELSE fillRes
    /\ strokeRes' = IF Len(stack) = 1 /\ fn = "stroke" THEN Some(paint) ELSE strokeRes
    /\ ev' = e
    /\ live' = surfaces
    /\ backend' = LET log == backend.cur \o asked
                  IN  IF Len(stack) = 1 THEN [backend EXCEPT !.cur = log, ![fn] = log]
                      ELSE [backend EXCEPT !.cur = log]
    /\ UNCHANGED <<status, req, renders>>

\* prepare_pattern calls render_group with the surface it has created.
EnterPattern(o, asked) ==
    IF Len(stack) >= MaxDepth THEN Overflow
    ELSE /\ stack' = Append(Append(Front, [Top EXCEPT !.pc = "in_pattern",
                                                       !.paint = o.paint,
                                                       !.pp = o.pp]),
                            GroupFrame(o.pp.id, surface_get_scale(Unwrap(o.pp.surface).ops)))
         /\ live' = live + 1
         /\ renders' = renders + 1
         /\ ev' = o.ev
         /\ backend' = [backend EXCEPT !.cur = @ \o asked]
         /\ UNCHANGED <<status, req, fillRes, strokeRes>>

KeepEvent(e) == IF e.op = "none" THEN ev ELSE e

\* fill, from its entry to its return or to the render_group call.
fill ==
    /\ Running
    /\ Top.fn = "fill" /\ Top.pc = "entry"
    /\ \E shaderOk \in BOOLEAN, surfOk \in BOOLEAN :
         LET o == fill_paint(Top.spec, Top.bbox, Top.ts, renders, shaderOk, surfOk)
         IN  CASE o.tag = "panic" -> Panic(o.ev)
               [] o.tag = "pattern" -> EnterPattern(o, Asked(o, shaderOk, surfOk))
               [] OTHER -> Return("fill", o.paint, KeepEvent(o.ev), live, Asked(o, shaderOk, surfOk))

\* stroke, from its entry to its return or to the render_group call.
stroke ==
    /\ Running
    /\ Top.fn = "stroke" /\ Top.pc = "entry"
    /\ \E shaderOk \in BOOLEAN, surfOk \in BOOLEAN :
         LET o == stroke_paint(Top.spec, Top.bbox, Top.ts, renders, shaderOk, surfOk)
         IN  CASE o.tag = "panic" -> Panic(o.ev)
               [] o.tag = "pattern" -> EnterPattern(o, Asked(o, shaderOk, surfOk))
               [] OTHER ->
                    LET st == stroke_style(Top.spec, o.paint)
                    IN  IF st.panic THEN Panic(KeepEvent(o.ev))
                        ELSE Return("stroke", st.paint, KeepEvent(o.ev), live,
                                    Asked(o, shaderOk, surfOk))

\* The scene renderer draws the pattern's content: it calls fill / stroke for
\* the next shape, or returns to prepare_pattern after the last one.
render_group ==
    /\ Running
    /\ Top.fn = "render_group"
    /\ LET children == Defs[Top.node].children
       IN  IF Top.idx > Len(children)
           THEN /\ stack' = Front
                /\ UNCHANGED <<status, req, fillRes, strokeRes, live, renders, ev, backend>>
           ELSE IF Len(stack) >= MaxDepth THEN Overflow
           ELSE LET ch == children[Top.idx]
                IN  /\ stack' = Append(Append(Front, [Top EXCEPT !.idx = @ + 1]),
                                       Frame(ch.fn, ch.spec, ch.bbox, Top.ts))
                    /\ UNCHANGED <<status, req, fillRes, strokeRes, live, renders, ev, backend>>

\* render_group has returned: the rest of prepare_pattern, the drop of its
\* surface, and the rest of the fill or stroke that called it.
prepare_pattern_return ==
    /\ Running
    /\ Top.fn \in {"fill", "stroke"} /\ Top.pc = "in_pattern"
    /\ \E shaderOk \in BOOLEAN :
         LET o == prepare_pattern_end(Defs[Top.pp.id], Top.pp, Top.paint, shaderOk)
             e == PatternEvent("pattern_done", Top.fn, Top.pp.id, Top.bbox, Top.ts, TRUE,
                                Top.paint, o.paint, renders)
         IN  IF o.panic THEN Panic(e)
             ELSE IF Top.fn = "fill" THEN Return("fill", o.paint, e, surface_drop(live), <<shaderOk>>)
             ELSE LET st == stroke_style(Top.spec, o.paint)
                  IN  IF st.panic
                      THEN /\ status' = "panicked"
                           /\ ev' = e
                           /\ live' = surface_drop(live)
                           /\ UNCHANGED <<stack, req, fillRes, strokeRes, renders, backend>>
                      ELSE Return("stroke", st.paint, e, surface_drop(live), <<shaderOk>>)

Next ==
    \/ CallFill
    \/ CallStroke
    \/ NextShape
    \/ fill
    \/ stroke
    \/ render_group
    \/ prepare_pattern_return

Spec == Init /\ [][Next]_vars

---------------------------------------------------------------------------
\* Properties.

PatternOps == {"pattern_abort", "pattern_render", "pattern_done"}
GradientOps == {"prepare_linear", "prepare_radial"}

\* The ids of the patterns whose prepare_pattern is in progress, outermost first.
InProgress == SelectSeq(stack, LAMBDA f : f.pc = "in_pattern")

\* The paint's colour, shader and alpha are as Paint_new leaves them.
Unpainted(paint) == paint.color = None /\ paint.shader = None /\ paint.alpha = None

\* The link of the request is to no definition, or to one that is no paint server.
NoPaintServer(r) ==
    /\ r.present
    /\ r.paint.tag = "Link"
    /\ (r.paint.id \in DOMAIN Defs =>
          Defs[r.paint.id].kind \notin {"LinearGradient", "RadialGradient", "Pattern"})

\* The raster size of the pattern's tile is not a finite positive size.
RasterInvalid(id, bbox, ts) ==
    LET pattern == Defs[id]
        r == IF pattern.units = "ObjectBoundingBox"
             THEN bbox_transform(pattern.rect, bbox) ELSE pattern.rect
        w == FMul(r.w, ts.sx)
        h == FMul(r.h, ts.sy)
    IN  ~IsFinite(w) \/ ~IsFinite(h) \/ w <= 0 \/ h <= 0

\* C1: a fill or stroke that links to a pattern whose content refers back to
\* it terminates with a paint: no pattern is entered again while it is in
\* progress, and the recursion does not outgrow the stack.
C1_CyclicPatternTerminates ==
    /\ status # "overflow"
    /\ \A i \in 1..Len(InProgress), j \in 1..Len(InProgress) :
          i # j => InProgress[i].pp.id # InProgress[j].pp.id

\* C2: fill and stroke of a link to nothing, or to a definition that is no
\* gradient or pattern, return without error a paint with no colour, shader
\* or alpha set.
C2_DanglingLinkReturnsDefault ==
    NoPaintServer(req) =>
        /\ status = "ok"
        /\ IsSome(fillRes) => Unpainted(Unwrap(fillRes))
        /\ IsSome(strokeRes) => Unpainted(Unwrap(strokeRes))

\* C3: prepare_radial on a gradient of radius <= 0 assigns no shader, leaves
\* the paint as it was and raises no error.
C3_DegenerateRadialSkipped ==
    (ev.op = "prepare_radial" /\ Defs[ev.id].r <= 0) =>
        ~ev.panic /\ ev.after = ev.before

\* C4: a pattern step whose raster size is not positive and finite returns
\* early: render_group is not called and the paint's shader and alpha stay
\* as they were, so a top-level call returns the paint without them.
C4_InvalidRasterAborts ==
    (ev.op \in PatternOps /\ RasterInvalid(ev.id, ev.bbox, ev.ts)) =>
        /\ ev.op = "pattern_abort"
        /\ ev.after.shader = ev.before.shader
        /\ ev.after.alpha = ev.before.alpha
        /\ renders = ev.renders
        /\ (Idle /\ ev.fn = "fill") =>
              IsSome(fillRes) /\ Unwrap(fillRes).shader = None /\ Unwrap(fillRes).alpha = None
        /\ (Idle /\ ev.fn = "stroke") =>
              IsSome(strokeRes) /\ Unwrap(strokeRes).shader = None
                                /\ Unwrap(strokeRes).alpha = None

C4_Witness ==
    /\ Idle
    /\ ev.op = "pattern_abort"
    /\ ev.fn = "stroke"
    /\ RasterInvalid(ev.id, ev.bbox, ev.ts)
    /\ ev.ts.sx = 0
    /\ IsSome(strokeRes)

\* C5: no call of fill or stroke panics, whatever the input and whatever the
\* backend's constructors yield.
C5_NeverPanics == status # "panicked"

\* C6: the paint a stroke with a stroke spec returns has the spec's cap,
\* join, miter limit and width (in the backend's f32) and, if the spec has a
\* dash array, a dash effect, whatever became of the paint's colour or shader.
C6_StrokeStyleAlwaysSet ==
    (IsSome(strokeRes) /\ req.present) =>
        LET paint == Unwrap(strokeRes)
        IN  /\ paint.stroke_cap = Some(req.linecap)
            /\ paint.stroke_join = Some(req.linejoin)
            /\ paint.stroke_miter = Some(AsF32(req.miterlimit))
            /\ paint.stroke_width = Some(AsF32(req.width))
            /\ IsSome(req.dasharray) => IsSome(paint.path_effect)

\* a stroke of a dangling link, with a dash array, has returned
C6_Witness ==
    /\ IsSome(strokeRes)
    /\ req.present
    /\ req.paint = Link("nope")
    /\ req.linecap = "Round"
    /\ IsSome(req.dasharray)
    /\ Unpainted(Unwrap(strokeRes))
    /\ IsSome(Unwrap(strokeRes).path_effect)

\* C7: the live offscreen surfaces are those of the prepare_pattern calls in
\* progress, one each; none is left once the top-level call has returned.
C7_SurfacesScoped ==
    status = "ok" =>
        /\ live = Len(InProgress)
        /\ stack = <<>> => live = 0

\* a nested pattern has been rendered and the top-level call has returned
C7_Witness ==
    /\ Idle
    /\ live = 0
    /\ ev.op = "pattern_done"
    /\ renders = 2
    /\ IsSome(fillRes)

\* C8: the base gradient has one colour and one position per stop, in the
\* stops' order: the position is the stop's offset (in the backend's f32),
\* the colour is the stop's, its alpha that of stop opacity * paint opacity.
C8_StopsPreserved ==
    ev.op \in GradientOps =>
        LET stops == Defs[ev.id].stops
            base == ev.gradient.base
        IN  /\ Len(base.colors) = Len(stops)
            /\ Len(base.positions) = Len(stops)
            /\ \A i \in 1..Len(stops) :
                  /\ base.positions[i] = AsF32(stops[i].offset)
                  /\ base.colors[i].r = stops[i].color.red
                  /\ base.colors[i].g = stops[i].color.green
                  /\ base.colors[i].b = stops[i].color.blue
                  /\ base.colors[i].a = to_u8(OpacityMul(stops[i].opacity, ev.opacity))

\* stops out of order, two of them equal, under a paint opacity of 0.5
C8_Witness ==
    /\ ev.op = "prepare_linear"
    /\ ev.id = "lg2"
    /\ ev.opacity = 8
    /\ ~ev.panic
    /\ ev.gradient.base.positions[1] > ev.gradient.base.positions[2]

\* C9: the two-circle descriptor of a radial gradient starts at the focal
\* point (fx, fy) with radius 0 and ends at (cx, cy) with radius r (in the
\* backend's f32).
C9_RadialTwoCircles ==
    ev.op = "prepare_radial" =>
        LET g == Defs[ev.id]
        IN  /\ ev.gradient.start = <<AsF32(g.fx), AsF32(g.fy)>>
            /\ ev.gradient.start_radius = 0
            /\ ev.gradient.end = <<AsF32(g.cx), AsF32(g.cy)>>
            /\ ev.gradient.end_radius = AsF32(g.r)

\* a radial gradient whose focal point is not its centre
C9_Witness ==
    /\ ev.op = "prepare_radial"
    /\ ev.id = "rg2"
    /\ ~ev.panic
    /\ ev.gradient.start # ev.gradient.end

\* C10: for the same paint, opacity, bbox and transform, and the same
\* answers of the backend's constructors, the paint stroke returns has the
\* colour, alpha and shader of the paint fill returns.
C10_FillStrokeSamePaint ==
    (IsSome(fillRes) /\ IsSome(strokeRes) /\ backend.fill = backend.stroke) =>
        /\ Unwrap(strokeRes).color = Unwrap(fillRes).color
        /\ Unwrap(strokeRes).alpha = Unwrap(fillRes).alpha
        /\ Unwrap(strokeRes).shader = Unwrap(fillRes).shader

\* both have returned for a link to a pattern, with a shader and an alpha
C10_Witness ==
    /\ IsSome(fillRes) /\ IsSome(strokeRes)
    /\ backend.fill = backend.stroke
    /\ req.paint = Link("patO")
    /\ IsSome(Unwrap(fillRes).shader)
    /\ IsSome(Unwrap(fillRes).alpha)
    /\ Unwrap(fillRes).style # Unwrap(strokeRes).style

====
